---- MODULE Spec2Model ----
(***************************************************************************)
(* Model of convert.js: extraction of speaker notes from a .pptx package   *)
(* into notes.json, followed by the LibreOffice PDF conversion.            *)
(*                                                                         *)
(* JavaScript strings are sequences of one-character strings, so that      *)
(* concatenation, trim(), parseInt() and the two file-name regular         *)
(* expressions are computed character by character, as the code does.      *)
(* A DOM element is reduced to what the code reads of it:                  *)
(*   run  (a:r)   [rPr : the a:rPr elements found, each an attribute list  *)
(*                 in declaration order; t : the a:t elements' text]       *)
(*   line (a:p)   [pPr : the a:pPr elements found; r : the a:r elements]   *)
(*   dom          [txBody : the p:txBody elements found, each the list of  *)
(*                 its a:p elements]                                       *)
(* getElementsByTagName(..)[0] is the first element of such a list, or     *)
(* undefined when the list is empty.                                       *)
(***************************************************************************)
EXTENDS Integers, Sequences, FiniteSets, TLC

VARIABLES
    files,         \* zip.files in enumeration order: [name, dom, corrupt]
    pc,            \* position of the async main function
    idx,           \* position of the for-of loop of extractNotes
    notes,         \* the notes array of extractNotes
    notesFile,     \* <outputPath>/notes.json: [exists, data]
    writes,        \* number of writeFileSync calls on notes.json
    generatedPdf,  \* <outputPath>/<inputBase>.pdf exists
    pdfFile,       \* <outputPath>/slides.pdf exists
    console,       \* messages printed, in order
    failed,        \* the stage whose error reached the catch block
    span,          \* argument of a formatSpan call
    spanOut,       \* its result
    line,          \* argument of a formatLine call
    lineOut        \* its result: [threw, str]

vars == <<files, pc, idx, notes, notesFile, writes, generatedPdf, pdfFile,
          console, failed, span, spanOut, line, lineOut>>

pipeVars == <<files, pc, idx, notes, notesFile, writes, generatedPdf, pdfFile,
              console, failed>>

----------------------------------------------------------------------------
(* Bounds of the model *)

MaxEntries == 2
MaxRuns == 2

----------------------------------------------------------------------------
(* Strings *)

Str1(a) == <<a>>
TAG_P_OPEN == <<"<", "p", ">">>
TAG_P_CLOSE == <<"<", "/", "p", ">">>
TAB_MARK == <<"&", "#", "9", ";">>
BULLET_MARK == <<"&", "#", "x", "2", "0", "2", "2", ";">>
UNDEFINED_STR == <<"u", "n", "d", "e", "f", "i", "n", "e", "d">>
NONE_STR == <<"n", "o", "n", "e">>
NOSTRIKE_STR == <<"n", "o", "S", "t", "r", "i", "k", "e">>

WhiteSpace == {" ", "\t", "\n", "\r"}
DecDigits == {"0", "1", "2", "3", "4", "5", "6", "7", "8", "9"}

DigitVal(c) ==
    CASE c = "0" -> 0 [] c = "1" -> 1 [] c = "2" -> 2 [] c = "3" -> 3
      [] c = "4" -> 4 [] c = "5" -> 5 [] c = "6" -> 6 [] c = "7" -> 7
      [] c = "8" -> 8 [] c = "9" -> 9
      [] c \in {"a", "A"} -> 10 [] c \in {"b", "B"} -> 11
      [] c \in {"c", "C"} -> 12 [] c \in {"d", "D"} -> 13
      [] c \in {"e", "E"} -> 14 [] c \in {"f", "F"} -> 15
      [] OTHER -> 99

RECURSIVE DropSpaceLeft(_)
DropSpaceLeft(s) ==
    IF s # <<>> /\ Head(s) \in WhiteSpace THEN DropSpaceLeft(Tail(s)) ELSE s

RECURSIVE DropSpaceRight(_)
DropSpaceRight(s) ==
    IF s # <<>> /\ s[Len(s)] \in WhiteSpace
    THEN DropSpaceRight(SubSeq(s, 1, Len(s) - 1))
    ELSE s

\* String.prototype.trim
Trim(s) == DropSpaceRight(DropSpaceLeft(s))

RECURSIVE Repeat(_, _)
\* String.prototype.repeat for a count >= 0
Repeat(s, n) == IF n <= 0 THEN <<>> ELSE s \o Repeat(s, n - 1)

\* the longest prefix of s made of digits of the radix, as a number
RECURSIVE DigitsValue(_, _, _, _)
DigitsValue(s, radix, acc, seen) ==
    IF s # <<>> /\ DigitVal(Head(s)) < radix
    THEN DigitsValue(Tail(s), radix, acc * radix + DigitVal(Head(s)), TRUE)
    ELSE [nan |-> ~seen, val |-> acc]

\* the digits of parseInt's argument behind the sign: an optional 0x prefix
\* makes them hexadecimal
ParseUnsigned(u) ==
    IF Len(u) >= 2 /\ u[1] = "0" /\ u[2] \in {"x", "X"}
    THEN DigitsValue(SubSeq(u, 3, Len(u)), 16, 0, FALSE)
    ELSE DigitsValue(u, 10, 0, FALSE)

WithSign(neg, r) == [nan |-> r.nan, val |-> IF neg THEN 0 - r.val ELSE r.val]

ParseSigned(t) ==
    WithSign(t # <<>> /\ Head(t) = "-",
             ParseUnsigned(IF t # <<>> /\ Head(t) \in {"-", "+"}
                           THEN Tail(t) ELSE t))

\* parseInt(s) with the radix left out: leading white space, an optional sign,
\* an optional 0x prefix, then the longest run of digits; NaN when there is none
ParseInt(s) == ParseSigned(DropSpaceLeft(s))

\* the truthiness of a number: neither NaN nor 0
Truthy(n) == ~n.nan /\ n.val # 0

----------------------------------------------------------------------------
(* DOM access *)

\* Element.getAttribute: the value of the first attribute of that name; an
\* absent attribute reads as the empty string (null in later xmldom releases;
\* both are falsy and both parse to NaN)
RECURSIVE getAttribute(_, _)
getAttribute(attrs, name) ==
    IF attrs = <<>> THEN <<>>
    ELSE IF Head(attrs)[1] = name THEN Head(attrs)[2]
    ELSE getAttribute(Tail(attrs), name)

----------------------------------------------------------------------------
(* formatSpan *)

OpenTag(tag) == <<"<">> \o tag \o <<">">>
CloseTag(tag) == <<"<", "/">> \o tag \o <<">">>

\* addTag with the closing tag put behind the ones already there
AddTagAppendEnd(acc, tag) ==
    [begin |-> acc.begin \o OpenTag(tag), end |-> acc.end \o CloseTag(tag)]

addTag(acc, tag) ==
    [begin |-> acc.begin \o OpenTag(tag), end |-> CloseTag(tag) \o acc.end]

\* if (cond) addTag(tag)
AddIf(cond, acc, tag) == IF cond THEN addTag(acc, tag) ELSE acc

\* a string attribute that is present and is not the sentinel
IsSet(value, sentinel) == value # <<>> /\ value # sentinel

\* begin and end after the four checks on the a:rPr element, in the order
\* of the code: b, i, u, strike
Tags(formatting) ==
    AddIf(IsSet(getAttribute(formatting, "strike"), NOSTRIKE_STR),
          AddIf(IsSet(getAttribute(formatting, "u"), NONE_STR),
                AddIf(Truthy(ParseInt(getAttribute(formatting, "i"))),
                      AddIf(Truthy(ParseInt(getAttribute(formatting, "b"))),
                            [begin |-> <<>>, end |-> <<>>],
                            Str1("b")),
                      Str1("i")),
                Str1("u")),
          Str1("s"))

\* begin + textContent + end
Wrap(acc, textContent) == acc.begin \o textContent \o acc.end

formatSpan(sp) ==
    Wrap(IF sp.rPr # <<>> THEN Tags(sp.rPr[1])
         ELSE [begin |-> <<>>, end |-> <<>>],
         IF sp.t = <<>> THEN UNDEFINED_STR ELSE sp.t[1])

----------------------------------------------------------------------------
(* formatLine *)

\* the indent prefix without the bullet marker
IndentNoBullet(n) == Repeat(TAB_MARK, n)

\* "&#9;".repeat(indent) + "&#x2022;"
Indent(n) == Repeat(TAB_MARK, n) \o BULLET_MARK

RECURSIVE SpansText(_)
\* the for loop over the a:r elements
SpansText(rs) ==
    IF rs = <<>> THEN <<>>
    ELSE <<" ">> \o formatSpan(Head(rs)) \o SpansText(Tail(rs))

\* if (indent) str += "&#9;".repeat(indent) + "&#x2022;", then the runs;
\* String.prototype.repeat throws a RangeError on a negative count
LineWith(indent, rs) ==
    IF Truthy(indent) /\ indent.val < 0 THEN [threw |-> TRUE, str |-> <<>>]
    ELSE [threw |-> FALSE,
          str |-> TAG_P_OPEN
                  \o (IF Truthy(indent) THEN Indent(indent.val) ELSE <<>>)
                  \o SpansText(rs) \o TAG_P_CLOSE]

formatLine(ln) ==
    IF ln.pPr # <<>>
    THEN LineWith(ParseInt(getAttribute(ln.pPr[1], "lvl")), ln.r)
    ELSE [threw |-> FALSE,
          str |-> TAG_P_OPEN \o SpansText(ln.r) \o TAG_P_CLOSE]

----------------------------------------------------------------------------
(* extractNotes *)

Lower(c) ==
    CASE c = "A" -> "a" [] c = "B" -> "b" [] c = "C" -> "c" [] c = "D" -> "d"
      [] c = "E" -> "e" [] c = "F" -> "f" [] c = "G" -> "g" [] c = "H" -> "h"
      [] c = "I" -> "i" [] c = "J" -> "j" [] c = "K" -> "k" [] c = "L" -> "l"
      [] c = "M" -> "m" [] c = "N" -> "n" [] c = "O" -> "o" [] c = "P" -> "p"
      [] c = "Q" -> "q" [] c = "R" -> "r" [] c = "S" -> "s" [] c = "T" -> "t"
      [] c = "U" -> "u" [] c = "V" -> "v" [] c = "W" -> "w" [] c = "X" -> "x"
      [] c = "Y" -> "y" [] c = "Z" -> "z" [] OTHER -> c

ToLower(s) == [k \in 1..Len(s) |-> Lower(s[k])]

NOTES_SLIDE == <<"n", "o", "t", "e", "s", "S", "l", "i", "d", "e">>
DOT_XML == <<".", "x", "m", "l">>

\* s has the string w at position k
HasAt(s, k, w) == k >= 1 /\ k + Len(w) - 1 <= Len(s)
                  /\ SubSeq(s, k, k + Len(w) - 1) = w

\* the token as the i flag compares it
NOTES_SLIDE_LOWER == ToLower(NOTES_SLIDE)

\* the test without [0-9]+
QualifiesWithoutDigit(filename) ==
    LET low == ToLower(filename)
    IN  \E k \in 1..Len(filename) : HasAt(low, k, NOTES_SLIDE_LOWER)

\* /notesSlide[0-9]+/i.test(filename): the token in any letter case at some
\* position, and a digit behind it
Qualifies(filename) ==
    LET low == ToLower(filename)
    IN  \E k \in 1..Len(filename) :
            /\ k + Len(NOTES_SLIDE) <= Len(filename)
            /\ filename[k + Len(NOTES_SLIDE)] \in DecDigits
            /\ HasAt(low, k, NOTES_SLIDE_LOWER)

\* the number of digits s ends with
RECURSIVE TrailingDigits(_)
TrailingDigits(s) ==
    IF s # <<>> /\ s[Len(s)] \in DecDigits
    THEN 1 + TrailingDigits(SubSeq(s, 1, Len(s) - 1))
    ELSE 0

\* filename.match(/notesSlide(\d+)\.xml$/): [matched, group], group being
\* match[1]. The pattern has no i flag.
SlideMatch(filename) ==
    LET n == Len(filename)
        stem == SubSeq(filename, 1, n - Len(DOT_XML))
        d == TrailingDigits(stem)
        ok == /\ HasAt(filename, n - Len(DOT_XML) + 1, DOT_XML)
              /\ d >= 1
              /\ HasAt(stem, Len(stem) - d - Len(NOTES_SLIDE) + 1, NOTES_SLIDE)
    IN  [matched |-> ok,
         group |-> IF ok THEN SubSeq(stem, Len(stem) - d + 1, Len(stem))
                   ELSE <<>>]

\* match ? parseInt(match[1], 10) : -1
SlideNumber(filename) ==
    LET match == SlideMatch(filename)
    IN  IF match.matched THEN DigitsValue(match.group, 10, 0, FALSE).val
        ELSE -1

\* slideText += formatLine(lines[i]), unless one of the two has thrown
AddLine(h, t) ==
    IF h.threw \/ t.threw THEN [threw |-> TRUE, str |-> <<>>]
    ELSE [threw |-> FALSE, str |-> h.str \o t.str]

\* the loop over the a:p elements
RECURSIVE LinesText(_)
LinesText(lines) ==
    IF lines = <<>> THEN [threw |-> FALSE, str |-> <<>>]
    ELSE AddLine(formatLine(Head(lines)), LinesText(Tail(lines)))

\* dom.getElementsByTagName("p:txBody")[0] is defined
HasBody(dom) == dom.txBody # <<>>

\* a push that leaves out a slide whose notes are empty
PushNoteSkipEmpty(ns, filename, slideText) ==
    IF slideText.threw THEN [threw |-> TRUE, notes |-> ns]
    ELSE IF Trim(slideText.str) = <<>> THEN [threw |-> FALSE, notes |-> ns]
    ELSE [threw |-> FALSE,
          notes |-> Append(ns, [slide |-> SlideNumber(filename),
                                notes |-> Trim(slideText.str)])]

\* notes.push({slide: slideNumber, notes: slideText.trim()}), unless
\* formatLine has thrown
PushNote(ns, filename, slideText) ==
    IF slideText.threw THEN [threw |-> TRUE, notes |-> ns]
    ELSE [threw |-> FALSE,
          notes |-> Append(ns, [slide |-> SlideNumber(filename),
                                notes |-> Trim(slideText.str)])]

\* One iteration of the for-of loop on entry f with the array ns:
\* [threw, notes]. Reading a corrupt entry rejects, formatLine may throw.
LoopBody(ns, f) ==
    IF ~Qualifies(f.name) THEN [threw |-> FALSE, notes |-> ns]
    ELSE IF f.corrupt THEN [threw |-> TRUE, notes |-> ns]
    ELSE IF ~HasBody(f.dom) THEN [threw |-> FALSE, notes |-> ns]
    ELSE PushNote(ns, f.name, LinesText(f.dom.txBody[1]))

\* the comparator with its operands exchanged
CompareReversed(a, b) == b.slide - a.slide

\* (a, b) => a.slide - b.slide
CompareSlide(a, b) == a.slide - b.slide

\* Array.prototype.sort is stable: x goes behind every element that does not
\* compare greater than it
RECURSIVE InsertSorted(_, _)
InsertSorted(s, x) ==
    IF s # <<>> /\ CompareSlide(s[Len(s)], x) > 0
    THEN Append(InsertSorted(SubSeq(s, 1, Len(s) - 1), x), s[Len(s)])
    ELSE Append(s, x)

RECURSIVE SortNotes(_)
SortNotes(ns) ==
    IF ns = <<>> THEN <<>>
    ELSE InsertSorted(SortNotes(SubSeq(ns, 1, Len(ns) - 1)), ns[Len(ns)])

RECURSIVE CollectAll(_, _)

\* the loop goes on unless the iteration has thrown
CollectRest(r, fs) == IF r.threw THEN r ELSE CollectAll(r.notes, fs)

\* notes.sort(...); return notes, when the loop has ended without an error
SortIfReturned(r) ==
    IF r.threw THEN r ELSE [threw |-> FALSE, notes |-> SortNotes(r.notes)]

\* the loop over the entries, from the array ns: [threw, notes]
CollectAll(ns, fs) ==
    IF fs = <<>> THEN [threw |-> FALSE, notes |-> ns]
    ELSE CollectRest(LoopBody(ns, Head(fs)), Tail(fs))

\* extractNotes on a whole package: [threw, notes]
ExtractNotes(fs) == SortIfReturned(CollectAll(<<>>, fs))

----------------------------------------------------------------------------
(* Inputs *)

HELLO == <<"H", "e", "l", "l", "o">>
WORLD == <<"W", "o", "r", "l", "d">>

AttrPairs ==
    {<<"b", v>> : v \in {<<"1">>, <<"0">>, <<"t", "r", "u", "e">>}}
    \cup {<<"i", v>> : v \in {<<"1">>, <<"0">>}}
    \cup {<<"u", v>> : v \in {<<"s", "n", "g">>, NONE_STR}}
    \cup {<<"strike", v>> :
            v \in {<<"s", "n", "g", "S", "t", "r", "i", "k", "e">>, NOSTRIKE_STR}}

\* attribute lists of an a:rPr element: each name at most once, in any order
AttrLists ==
    UNION {{a \in [1..k -> AttrPairs] :
               \A x, y \in 1..k : x # y => a[x][1] # a[y][1]} : k \in 0..4}

SpanInputs ==
    [rPr : {<<>>} \cup {<<a>> : a \in AttrLists},
     t : {<<>>, <<HELLO>>, <<(<<>>)>>}]

RunPlain(text) == [rPr |-> <<>>, t |-> <<text>>]
RunBoldItalic(text) ==
    [rPr |-> <<(<< <<"i", <<"1">> >>, <<"b", <<"1">> >> >>)>>, t |-> <<text>>]
RunStrike(text) ==
    [rPr |-> <<(<< <<"strike", <<"s", "n", "g", "S", "t", "r", "i", "k", "e">> >> >>)>>,
     t |-> <<text>>]
RunNoText == [rPr |-> <<>>, t |-> <<>>]

SampleRuns == {RunPlain(HELLO), RunBoldItalic(HELLO), RunStrike(WORLD), RunNoText}

LvlValues ==
    {<<"0">>, <<"1">>, <<"2">>, <<"1", "0">>, <<"-", "1">>, <<"-", "3">>,
     <<"x">>, <<>>, <<"2", "x">>}

LineInputs ==
    [pPr : {<<>>, <<(<<>>)>>} \cup {<<(<< <<"lvl", v>> >>)>> : v \in LvlValues},
     r : UNION {[1..k -> SampleRuns] : k \in 0..MaxRuns}]

Para(lvl, rs) == [pPr |-> <<(<< <<"lvl", lvl>> >>)>>, r |-> rs]

DomNoBody == [txBody |-> <<>>]
DomEmptyBody == [txBody |-> <<(<<>>)>>]
DomHello ==
    [txBody |-> << <<Para(<<"0">>, <<RunBoldItalic(HELLO)>>),
                     Para(<<"2">>, <<RunPlain(WORLD)>>)>>,
                   <<Para(<<"0">>, <<RunPlain(<<"7">>)>>)>> >>]
DomNegLvl == [txBody |-> << <<Para(<<"-", "1">>, <<RunPlain(HELLO)>>)>> >>]

DIR_A == <<"a", "/">>
N2 == DIR_A \o NOTES_SLIDE \o <<"2">> \o DOT_XML
N10 == DIR_A \o NOTES_SLIDE \o <<"1", "0">> \o DOT_XML
NX == DIR_A \o NOTES_SLIDE \o <<"X">> \o DOT_XML
NCAPS7 == DIR_A \o <<"N">> \o Tail(NOTES_SLIDE) \o <<"7">> \o DOT_XML
N2B == <<"b", "/">> \o NOTES_SLIDE \o <<"2">> \o DOT_XML
NRELS == DIR_A \o NOTES_SLIDE \o <<"2">> \o DOT_XML \o <<".", "r", "e", "l", "s">>

Names == {N2, N10, N2B, NX, NCAPS7, NRELS}

Entries ==
    [name : Names, dom : {DomNoBody, DomEmptyBody, DomHello, DomNegLvl},
     corrupt : {FALSE}]
    \cup [name : Names, dom : {DomHello}, corrupt : {TRUE}]

\* packages: at most MaxEntries entries, no identifier twice
Packages ==
    UNION {{f \in [1..k -> Entries] :
               \A x, y \in 1..k : x # y => f[x].name # f[y].name}
           : k \in 0..MaxEntries}

NoSpan == [rPr |-> <<>>, t |-> <<>>]
NoLine == [pPr |-> <<>>, r |-> <<>>]
NoSpanOut == [done |-> FALSE, str |-> <<>>]
NoLineOut == [done |-> FALSE, threw |-> FALSE, str |-> <<>>]
Absent == [exists |-> FALSE, data |-> <<>>]

----------------------------------------------------------------------------
(* The main function *)

Init ==
    /\ files \in Packages
    /\ pc = "readFile"
    /\ idx = 1
    /\ notes = <<>>
    /\ notesFile = Absent
    /\ writes = 0
    /\ generatedPdf = FALSE
    /\ pdfFile = FALSE
    /\ console = <<>>
    /\ failed = "none"
    /\ span = NoSpan /\ spanOut = NoSpanOut
    /\ line = NoLine /\ lineOut = NoLineOut

fmtVars == <<span, spanOut, line, lineOut>>

\* catch (err) { console.error("Error:", err) }
Catch(stage) ==
    /\ console' = Append(console, "Error:")
    /\ failed' = stage
    /\ pc' = "done"

\* fs.readFileSync(inputPath)
ReadFile ==
    /\ pc = "readFile"
    /\ \/ pc' = "loadZip" /\ UNCHANGED <<console, failed>>
       \/ Catch("readFile")
    /\ UNCHANGED <<files, idx, notes, notesFile, writes, generatedPdf, pdfFile>>
    /\ UNCHANGED fmtVars

\* await JSZip.loadAsync(data)
LoadZip ==
    /\ pc = "loadZip"
    /\ \/ pc' = "extract" /\ UNCHANGED <<console, failed>>
       \/ Catch("loadZip")
    /\ UNCHANGED <<files, idx, notes, notesFile, writes, generatedPdf, pdfFile>>
    /\ UNCHANGED fmtVars

\* an iteration that prints the error of an entry and goes on with the next
ExtractEntryContinue ==
    /\ pc = "extract"
    /\ idx <= Len(files)
    /\ \E r \in {LoopBody(notes, files[idx])} :
           /\ notes' = r.notes
           /\ idx' = idx + 1
           /\ IF r.threw
              THEN /\ console' = Append(console, "Error:")
                   /\ UNCHANGED <<pc, failed>>
              ELSE UNCHANGED <<pc, console, failed>>
    /\ UNCHANGED <<files, notesFile, writes, generatedPdf, pdfFile>>
    /\ UNCHANGED fmtVars

\* one iteration of the loop of extractNotes
ExtractEntry ==
    /\ pc = "extract"
    /\ idx <= Len(files)
    /\ \E r \in {LoopBody(notes, files[idx])} :
           IF r.threw
           THEN Catch("extract") /\ UNCHANGED <<idx, notes>>
           ELSE /\ notes' = r.notes
                /\ idx' = idx + 1
                /\ UNCHANGED <<pc, console, failed>>
    /\ UNCHANGED <<files, notesFile, writes, generatedPdf, pdfFile>>
    /\ UNCHANGED fmtVars

\* the loop is over: notes.sort(...); return notes
ExtractReturn ==
    /\ pc = "extract"
    /\ idx > Len(files)
    /\ notes' = SortNotes(notes)
    /\ pc' = "writeNotes"
    /\ UNCHANGED <<files, idx, notesFile, writes, generatedPdf, pdfFile,
                   console, failed>>
    /\ UNCHANGED fmtVars

\* fs.writeFileSync(notesFile, JSON.stringify(notes, null, 2), "utf8"):
\* the file holds the array, element by element in the array's order
WriteNotes ==
    /\ pc = "writeNotes"
    /\ notesFile' = [exists |-> TRUE, data |-> notes]
    /\ writes' = writes + 1
    /\ console' = Append(console, "Notes written")
    /\ pc' = "convert"
    /\ UNCHANGED <<files, idx, notes, generatedPdf, pdfFile, failed>>
    /\ UNCHANGED fmtVars

\* convertToPdf up to exec(cmd, callback)
ConvertToPdf ==
    /\ pc = "convert"
    /\ console' = Append(console, "Converting to PDF...")
    /\ pc' = "exec"
    /\ UNCHANGED <<files, idx, notes, notesFile, writes, generatedPdf, pdfFile,
                   failed>>
    /\ UNCHANGED fmtVars

\* the callback of exec: LibreOffice has ended, with or without an error and
\* with or without <inputBase>.pdf in the output directory
ExecCallback ==
    /\ pc = "exec"
    /\ \E produced \in BOOLEAN :
        /\ generatedPdf' = produced
        /\ \/ Catch("convert")
           \/ /\ console' = Append(console, "stdout")
              /\ pc' = "checkPdf"
              /\ UNCHANGED failed
    /\ UNCHANGED <<files, idx, notes, notesFile, writes, pdfFile>>
    /\ UNCHANGED fmtVars

\* a step that throws when the rendition is missing
CheckPdfAbort ==
    /\ pc = "checkPdf"
    /\ IF generatedPdf
       THEN /\ generatedPdf' = FALSE
            /\ pdfFile' = TRUE
            /\ console' = Append(console, "PDF saved")
            /\ pc' = "done"
            /\ UNCHANGED failed
       ELSE Catch("checkPdf") /\ UNCHANGED <<generatedPdf, pdfFile>>
    /\ UNCHANGED <<files, idx, notes, notesFile, writes>>
    /\ UNCHANGED fmtVars

\* if (fs.existsSync(generatedPdf)) rename, else warn
CheckPdf ==
    /\ pc = "checkPdf"
    /\ IF generatedPdf
       THEN /\ generatedPdf' = FALSE
            /\ pdfFile' = TRUE
            /\ console' = Append(console, "PDF saved")
       ELSE /\ console' = Append(console, "PDF conversion failed: not found")
            /\ UNCHANGED <<generatedPdf, pdfFile>>
    /\ pc' = "done"
    /\ UNCHANGED <<files, idx, notes, notesFile, writes, failed>>
    /\ UNCHANGED fmtVars

Next ==
    \/ ReadFile
    \/ LoadZip
    \/ ExtractEntry
    \/ ExtractReturn
    \/ WriteNotes
    \/ ConvertToPdf
    \/ ExecCallback
    \/ CheckPdf

Spec == Init /\ [][Next]_vars

----------------------------------------------------------------------------
(* Calls of formatSpan on every run *)

InitSpan ==
    /\ span \in SpanInputs /\ spanOut = NoSpanOut
    /\ line = NoLine /\ lineOut = NoLineOut
    /\ files = <<>> /\ pc = "done" /\ idx = 1 /\ notes = <<>>
    /\ notesFile = Absent /\ writes = 0 /\ generatedPdf = FALSE
    /\ pdfFile = FALSE /\ console = <<>> /\ failed = "none"

CallFormatSpan ==
    /\ ~spanOut.done
    /\ spanOut' = [done |-> TRUE, str |-> formatSpan(span)]
    /\ UNCHANGED <<span, line, lineOut>>
    /\ UNCHANGED pipeVars

NextSpan == CallFormatSpan

SpecSpan == InitSpan /\ [][NextSpan]_vars

(* Calls of formatLine on every line *)

InitLine ==
    /\ line \in LineInputs /\ lineOut = NoLineOut
    /\ span = NoSpan /\ spanOut = NoSpanOut
    /\ files = <<>> /\ pc = "done" /\ idx = 1 /\ notes = <<>>
    /\ notesFile = Absent /\ writes = 0 /\ generatedPdf = FALSE
    /\ pdfFile = FALSE /\ console = <<>> /\ failed = "none"

CallFormatLine ==
    /\ ~lineOut.done
    /\ lineOut' = [done |-> TRUE] @@ formatLine(line)
    /\ UNCHANGED <<span, spanOut, line>>
    /\ UNCHANGED pipeVars

NextLine == CallFormatLine

SpecLine == InitLine /\ [][NextLine]_vars

----------------------------------------------------------------------------
(* Properties *)

\* the entry's tree has a notes-body container
HasBodyEl(f) == f.dom.txBody # <<>>

\* a qualifying entry with a notes-body container
Counted(f) == Qualifies(f.name) /\ HasBodyEl(f)

\* the number of such entries among the first k
RecordNo(k) == Cardinality({j \in 1..k : Counted(files[j])})

\* extractNotes has returned
Extracted ==
    \/ pc \in {"writeNotes", "convert", "exec", "checkPdf"}
    \/ pc = "done" /\ failed \in {"none", "convert"}

SortedBySlide(a) ==
    \A x, y \in 1..Len(a) : x < y => a[x].slide <= a[y].slide

MinusOneFirst(a) ==
    \A x, y \in 1..Len(a) : a[x].slide = -1 /\ a[y].slide >= 0 => x < y

Printed(msg) == \E k \in 1..Len(console) : console[k] = msg

\* notes.json holds e, the result of an extraction that has not thrown
Holds(e) == ~e.threw /\ notesFile = [exists |-> TRUE, data |-> e.notes]

\* notes.json holds the whole extraction output of the package
Complete == Holds(ExtractNotes(files))

\* C1: the array extractNotes returns, and the one written to notes.json, is
\* non-decreasing in slide under numeric comparison, and every record with
\* slide -1 precedes every record with a slide >= 0.
C1_SortedOutput ==
    /\ Extracted => SortedBySlide(notes) /\ MinusOneFirst(notes)
    /\ writes >= 1 => SortedBySlide(notesFile.data) /\ MinusOneFirst(notesFile.data)

C1_Witness ==
    /\ writes >= 1
    /\ Len(files) = 2 /\ files[1].name = N10 /\ files[2].name = N2
    /\ Len(notesFile.data) = 2
    /\ notesFile.data[1].slide = 2 /\ notesFile.data[2].slide = 10

TagIf(flag, tag) == IF flag THEN tag ELSE <<>>

HasAttr(sp, name, value) ==
    /\ sp.rPr # <<>>
    /\ \E k \in 1..Len(sp.rPr[1]) : sp.rPr[1][k] = <<name, value>>

BoldSet(sp) == HasAttr(sp, "b", <<"1">>)
ItalicSet(sp) == HasAttr(sp, "i", <<"1">>)
UnderlineSet(sp) == HasAttr(sp, "u", <<"s", "n", "g">>)
StrikeSet(sp) ==
    HasAttr(sp, "strike", <<"s", "n", "g", "S", "t", "r", "i", "k", "e">>)

\* the text of the run as JavaScript concatenates it
TextOf(sp) == IF sp.t = <<>> THEN UNDEFINED_STR ELSE sp.t[1]

\* C2: whatever the declaration order of the attributes, formatSpan opens the
\* tags of the set flags in the order b, i, u, s and closes them in the
\* reverse order, one pair per set flag and none for an unset flag; without
\* an a:rPr element the result is the text alone.
C2_TagNesting ==
    spanOut.done =>
        /\ spanOut.str =
              TagIf(BoldSet(span), <<"<", "b", ">">>)
              \o TagIf(ItalicSet(span), <<"<", "i", ">">>)
              \o TagIf(UnderlineSet(span), <<"<", "u", ">">>)
              \o TagIf(StrikeSet(span), <<"<", "s", ">">>)
              \o TextOf(span)
              \o TagIf(StrikeSet(span), <<"<", "/", "s", ">">>)
              \o TagIf(UnderlineSet(span), <<"<", "/", "u", ">">>)
              \o TagIf(ItalicSet(span), <<"<", "/", "i", ">">>)
              \o TagIf(BoldSet(span), <<"<", "/", "b", ">">>)
        /\ span.rPr = <<>> => spanOut.str = TextOf(span)

C2_Witness ==
    /\ spanOut.done
    /\ span.t = <<HELLO>>
    /\ span.rPr # <<>> /\ Len(span.rPr[1]) = 4
    /\ span.rPr[1][1][1] = "strike" /\ span.rPr[1][2][1] = "i"
    /\ span.rPr[1][3][1] = "u" /\ span.rPr[1][4][1] = "b"
    /\ BoldSet(span) /\ ItalicSet(span) /\ ~UnderlineSet(span) /\ StrikeSet(span)
    /\ spanOut.str = <<"<", "b", ">", "<", "i", ">", "<", "s", ">">> \o HELLO
                     \o <<"<", "/", "s", ">", "<", "/", "i", ">", "<", "/", "b", ">">>

\* the indent level of a line as parseInt reads its lvl attribute
LevelOf(ln) ==
    IF ln.pPr = <<>> THEN [nan |-> TRUE, val |-> 0]
    ELSE ParseInt(getAttribute(ln.pPr[1], "lvl"))

\* n tab markers and one bullet marker, written out character by character
ExpectedPrefix(n) ==
    [k \in 1..(4 * n + 8) |->
        IF k <= 4 * n THEN TAB_MARK[((k - 1) % 4) + 1] ELSE BULLET_MARK[k - 4 * n]]

RECURSIVE ExpectedBody(_)
ExpectedBody(rs) ==
    IF rs = <<>> THEN <<>>
    ELSE ExpectedBody(SubSeq(rs, 1, Len(rs) - 1)) \o <<" ">>
         \o formatSpan(rs[Len(rs)])

\* C3: formatLine returns "<p>" + prefix + body + "</p>"; for a level n >= 1
\* the prefix is n tab markers and then one bullet marker, for level 0, a
\* level that is no number or no a:pPr element it is empty; the body is one
\* space and the formatted run, for every run in order.
C3_LineFormat ==
    lineOut.done /\ ~lineOut.threw =>
        /\ ~LevelOf(line).nan /\ LevelOf(line).val >= 1 =>
              lineOut.str = TAG_P_OPEN \o ExpectedPrefix(LevelOf(line).val)
                            \o ExpectedBody(line.r) \o TAG_P_CLOSE
        /\ LevelOf(line).nan \/ LevelOf(line).val = 0 =>
              lineOut.str = TAG_P_OPEN \o ExpectedBody(line.r) \o TAG_P_CLOSE

C3_Witness ==
    /\ lineOut.done /\ ~lineOut.threw
    /\ line.pPr = <<(<< <<"lvl", <<"2">> >> >>)>>
    /\ line.r = <<RunPlain(HELLO), RunNoText>>
    /\ lineOut.str = TAG_P_OPEN \o TAB_MARK \o TAB_MARK \o BULLET_MARK
                     \o <<" ">> \o HELLO \o <<" ">> \o UNDEFINED_STR
                     \o TAG_P_CLOSE

\* C4: the number of records is the number of qualifying entries whose tree
\* has a p:txBody element; a qualifying entry without one gives no record and
\* no error; one whose p:txBody holds no paragraph gives one record with
\* empty notes.
C4_RecordCount ==
    /\ pc = "extract" =>
          /\ Len(notes) = RecordNo(idx - 1)
          /\ \A k \in 1..(idx - 1) :
                Counted(files[k]) /\ files[k].dom.txBody[1] = <<>> =>
                    notes[RecordNo(k)].notes = <<>>
    /\ Extracted => Len(notes) = RecordNo(Len(files))
    /\ writes >= 1 => Len(notesFile.data) = RecordNo(Len(files))
    /\ failed = "extract" =>
          /\ Qualifies(files[idx].name)
          /\ files[idx].corrupt \/ HasBodyEl(files[idx])

C4_Witness ==
    /\ writes >= 1
    /\ \E k \in 1..Len(files) : Qualifies(files[k].name) /\ ~HasBodyEl(files[k])
    /\ \E k \in 1..Len(files) : Counted(files[k]) /\ files[k].dom.txBody[1] = <<>>
    /\ Len(notesFile.data) = 1
    /\ notesFile.data[1].notes = <<>>

Perms(n) == {p \in [1..n -> 1..n] : \A x, y \in 1..n : x # y => p[x] # p[y]}

Permuted(fs, p) == [k \in 1..Len(fs) |-> fs[p[k]]]

\* C5: the output written for a package is the output of every other
\* enumeration order of the same entries, also when two qualifying entries
\* have the same slide index.
C5_OrderIndependent ==
    writes >= 1 =>
        \A p \in Perms(Len(files)) :
            ExtractNotes(Permuted(files, p)) =
                [threw |-> FALSE, notes |-> notesFile.data]

\* C6: notes.json is written before the conversion starts and is written
\* once; from then on it holds the whole extraction output, also when the
\* conversion fails or <inputBase>.pdf is missing, and a missing rendition is
\* a warning only: nothing is renamed and the run does not abort.
C6_NotesKept ==
    /\ writes <= 1
    /\ writes = 1 => Complete
    /\ Printed("Converting to PDF...") => writes = 1 /\ Printed("Notes written")
    /\ pc \in {"exec", "checkPdf"} => writes = 1
    /\ failed = "convert" => pc = "done" /\ writes = 1
    /\ pc = "done" /\ Printed("stdout") /\ ~pdfFile =>
          /\ failed = "none"
          /\ console[Len(console)] = "PDF conversion failed: not found"
          /\ ~Printed("Error:")
          /\ writes = 1

C6_Witness ==
    /\ pc = "done" /\ Printed("stdout") /\ ~pdfFile
    /\ notesFile.exists /\ Len(notesFile.data) = 2

\* the slide index the trailing numeric suffix gives when the letter case of
\* the identifier is not taken into account
ClaimedSlide(filename) ==
    LET n == Len(filename)
        stem == SubSeq(filename, 1, n - Len(DOT_XML))
        d == TrailingDigits(stem)
        ok == /\ HasAt(ToLower(filename), n - Len(DOT_XML) + 1, DOT_XML)
              /\ d >= 1
              /\ HasAt(ToLower(stem), Len(stem) - d - Len(NOTES_SLIDE) + 1,
                       NOTES_SLIDE_LOWER)
    IN  IF ok
        THEN DigitsValue(SubSeq(stem, Len(stem) - d + 1, Len(stem)), 10, 0, FALSE).val
        ELSE -1

\* C7: every entry whose identifier holds notesSlide and digits, in any
\* letter case, and whose tree has a body gives a record, and the record's
\* slide is the value of the identifier's trailing numeric suffix in any
\* letter case, -1 only without such a suffix.
C7_SlideFromSuffix ==
    pc = "extract" =>
        /\ Len(notes) = RecordNo(idx - 1)
        /\ \A k \in 1..(idx - 1) :
              Counted(files[k]) =>
                  notes[RecordNo(k)].slide = ClaimedSlide(files[k].name)

\* the number of entries among the first k that have a body and are not NX
RecordNoButNX(k) ==
    Cardinality({j \in 1..k : files[j].name # NX /\ HasBodyEl(files[j])})

\* C8 as amended: notesSlideX.xml does not qualify and gives no record; a
\* qualifying entry whose identifier does not end in notesSlide<digits>.xml,
\* such as notesSlide2.xml.rels, and whose tree has a body gives a record
\* with slide -1, which is sorted before every record with a numeric index.
C8_UnparsableIndex ==
    /\ pc = "extract" =>
          /\ Len(notes) = RecordNoButNX(idx - 1)
          /\ \A k \in 1..(idx - 1) :
                files[k].name = NRELS /\ HasBodyEl(files[k]) =>
                    notes[RecordNoButNX(k)].slide = -1
    /\ Extracted => MinusOneFirst(notes)
    /\ writes >= 1 =>
          /\ Len(notesFile.data) = RecordNoButNX(Len(files))
          /\ MinusOneFirst(notesFile.data)

C8_Witness ==
    /\ writes >= 1
    /\ Len(files) = 2
    /\ files[1].name = N2 /\ HasBodyEl(files[1])
    /\ files[2].name = NRELS /\ HasBodyEl(files[2])
    /\ Len(notesFile.data) = 2
    /\ notesFile.data[1].slide = -1 /\ notesFile.data[2].slide = 2

\* the number of entries among the first k that have a body
RecordNoAll(k) == Cardinality({j \in 1..k : HasBodyEl(files[j])})

\* C8: an entry named notesSlideX.xml whose tree has a body gives a record
\* with slide -1, sorted before every record with a numeric index.
C8_Original ==
    /\ pc = "extract" =>
          /\ Len(notes) = RecordNoAll(idx - 1)
          /\ \A k \in 1..(idx - 1) :
                files[k].name = NX /\ HasBodyEl(files[k]) =>
                    notes[RecordNoAll(k)].slide = -1
    /\ writes >= 1 => MinusOneFirst(notesFile.data)

\* C9: notes are sorted and written only when every entry has been
\* collected, and what is written is the whole output; when the input cannot
\* be read or opened, or an entry fails, the error is printed, notes.json is
\* not written and the conversion is not started.
C9_Barrier ==
    /\ pc = "writeNotes" => idx > Len(files)
    /\ writes >= 1 => idx > Len(files) /\ Complete
    /\ failed \in {"readFile", "loadZip", "extract"} =>
          /\ pc = "done"
          /\ writes = 0 /\ notesFile = Absent
          /\ console = <<"Error:">>
          /\ ~generatedPdf /\ ~pdfFile
    /\ \/ notesFile # Absent
       \/ Printed("Converting to PDF...")
       \/ pc = "done" /\ failed \notin {"readFile", "loadZip", "extract"}
       => writes >= 1

C9_Witness ==
    /\ pc = "done" /\ failed = "extract"
    /\ idx = 2 /\ Len(notes) = 1
    /\ writes = 0 /\ ~notesFile.exists

\* C10: formatLine returns a string for every value of the lvl attribute,
\* negative integers included, and never raises.
C10_NeverRaises ==
    lineOut.done =>
        /\ ~lineOut.threw
        /\ Len(lineOut.str) >= Len(TAG_P_OPEN) + Len(TAG_P_CLOSE)

====
